---- MODULE Spec2Model ----
(***************************************************************************)
(* Streaming sessions of OpenAI._stream (src/src/index.ts, 512-557).       *)
(*                                                                         *)
(* _stream builds a request, constructs one EventSource and registers      *)
(* three listeners on it ('message', 'error', 'open').  The listeners keep *)
(* no state of their own: what a session does is a function of the events  *)
(* the EventSource hands to them.  The model records, per session, the     *)
(* events delivered (events) and the calls the listeners made in order     *)
(* (trace): the caller's callbacks and eventSource.close().  The           *)
(* EventSource itself is a library outside the repository: the model lets  *)
(* it deliver any event at any time, also after close().                   *)
(*                                                                         *)
(* Strings that the code inspects (event.data) are sequences of            *)
(* one-character strings, so that truthiness, the comparison with          *)
(* '[DONE]' and JSON.parse are computed on the text itself.                *)
(***************************************************************************)
EXTENDS Integers, Sequences, FiniteSets, TLC

\* ------------------------------------------------------------------ bounds
\* Number of transport events delivered to the listeners of one session.
MaxEvents == 3

\* Number of transport events delivered in all, when two sessions run
\* side by side.
MaxConcurrentEvents == 4

\* The stream calls of the program; each makes one session.
Sessions == { "s1", "s2" }

\* --------------------------------------------------------------- payloads
\* event.data values the transport may deliver in a 'message' event.
P_Empty == << >>
P_Space == << " " >>
P_Done == << "[", "D", "O", "N", "E", "]" >>
P_DonePadded == << " ", "[", "D", "O", "N", "E", "]" >>
P_Id1 == << "{", "\"", "i", "d", "\"", ":", "1", "}" >>
P_Id2 == << "{", "\"", "i", "d", "\"", ":", "2", "}" >>
P_Bad == << "{", "b", "a", "d", " ", "j", "s", "o", "n" >>
P_Zero == << "0" >>

\* Further JSON texts: null, a string, false, an array.
P_Null == << "n", "u", "l", "l" >>
P_Str == << "\"", "a", "\"" >>
P_False == << "f", "a", "l", "s", "e" >>
P_Array == << "[", "1", ",", " ", "2", "]" >>

Payloads == { P_Empty, P_Space, P_Done, P_DonePadded, P_Id1, P_Id2, P_Bad, P_Zero }

\* ------------------------------------------------------------- JSON.parse
\* JSON.parse(event.data), line 535: a recursive-descent reading of the
\* text.  A result is [ok, value, pos, message]; values are tagged records.
WhiteSpace == { " ", "\n", "\t", "\r" }
Digits == { "0", "1", "2", "3", "4", "5", "6", "7", "8", "9" }

DigitValue(c) ==
  CASE c = "0" -> 0 [] c = "1" -> 1 [] c = "2" -> 2 [] c = "3" -> 3
    [] c = "4" -> 4 [] c = "5" -> 5 [] c = "6" -> 6 [] c = "7" -> 7
    [] c = "8" -> 8 [] c = "9" -> 9

Undefined == [t |-> "undefined", v |-> 0]

\* The failure descriptions of JSON.parse (error.message).
UnexpectedEnd ==
  << "U", "n", "e", "x", "p", "e", "c", "t", "e", "d", " ", "e", "n", "d", " ", "o", "f", " ", "J", "S", "O", "N", " ", "i", "n", "p", "u", "t" >>
UnexpectedToken ==
  << "U", "n", "e", "x", "p", "e", "c", "t", "e", "d", " ", "t", "o", "k", "e", "n" >>

ParseOk(val, next) == [ok |-> TRUE, value |-> val, pos |-> next, message |-> << >>]
ParseFail(msg, at) == [ok |-> FALSE, value |-> Undefined, pos |-> at, message |-> msg]

RECURSIVE SkipWs(_, _)
SkipWs(p, i) ==
  IF i <= Len(p) /\ p[i] \in WhiteSpace THEN SkipWs(p, i + 1) ELSE i

\* Does the text p carry the word w at position i?
HasWord(p, i, w) ==
  /\ i + Len(w) - 1 <= Len(p)
  /\ SubSeq(p, i, i + Len(w) - 1) = w

RECURSIVE ParseDigits(_, _, _)
ParseDigits(p, i, acc) ==
  IF i <= Len(p) /\ p[i] \in Digits
    THEN ParseDigits(p, i + 1, acc * 10 + DigitValue(p[i]))
    ELSE ParseOk([t |-> "number", v |-> acc], i)

\* A number: 0, or a digit 1-9 followed by digits (no leading zero).
ParseNumber(p, i) ==
  IF p[i] = "0" THEN ParseOk([t |-> "number", v |-> 0], i + 1)
  ELSE ParseDigits(p, i, 0)

\* A string without escapes: the characters up to the closing quote.
RECURSIVE ParseString(_, _, _)
ParseString(p, i, acc) ==
  IF i > Len(p) THEN ParseFail(UnexpectedEnd, i)
  ELSE IF p[i] = "\"" THEN ParseOk([t |-> "string", v |-> acc], i + 1)
  ELSE ParseString(p, i + 1, Append(acc, p[i]))

RECURSIVE ParseValue(_, _)
RECURSIVE ParseMembers(_, _, _)
RECURSIVE ParseElements(_, _, _)

\* The members of an object after '{' or after ',': "key" : value ...
ParseMembers(p, i, acc) ==
  LET k == SkipWs(p, i) IN
  IF k > Len(p) THEN ParseFail(UnexpectedEnd, k)
  ELSE IF p[k] # "\"" THEN ParseFail(UnexpectedToken, k)
  ELSE
    LET key == ParseString(p, k + 1, << >>) IN
    IF ~key.ok THEN key
    ELSE
      LET c == SkipWs(p, key.pos) IN
      IF c > Len(p) THEN ParseFail(UnexpectedEnd, c)
      ELSE IF p[c] # ":" THEN ParseFail(UnexpectedToken, c)
      ELSE
        LET val == ParseValue(p, SkipWs(p, c + 1)) IN
        IF ~val.ok THEN val
        ELSE
          LET e == SkipWs(p, val.pos)
              members == Append(acc, << key.value.v, val.value >>)
          IN
          IF e > Len(p) THEN ParseFail(UnexpectedEnd, e)
          ELSE IF p[e] = "}" THEN ParseOk([t |-> "object", v |-> members], e + 1)
          ELSE IF p[e] = "," THEN ParseMembers(p, e + 1, members)
          ELSE ParseFail(UnexpectedToken, e)

\* The elements of an array after '[' or after ','.
ParseElements(p, i, acc) ==
  LET val == ParseValue(p, SkipWs(p, i)) IN
  IF ~val.ok THEN val
  ELSE
    LET e == SkipWs(p, val.pos)
        elements == Append(acc, val.value)
    IN
    IF e > Len(p) THEN ParseFail(UnexpectedEnd, e)
    ELSE IF p[e] = "]" THEN ParseOk([t |-> "array", v |-> elements], e + 1)
    ELSE IF p[e] = "," THEN ParseElements(p, e + 1, elements)
    ELSE ParseFail(UnexpectedToken, e)

ParseValue(p, i) ==
  IF i > Len(p) THEN ParseFail(UnexpectedEnd, i)
  ELSE IF p[i] = "{" THEN
    LET k == SkipWs(p, i + 1) IN
    IF k <= Len(p) /\ p[k] = "}" THEN ParseOk([t |-> "object", v |-> << >>], k + 1)
    ELSE ParseMembers(p, i + 1, << >>)
  ELSE IF p[i] = "[" THEN
    LET k == SkipWs(p, i + 1) IN
    IF k <= Len(p) /\ p[k] = "]" THEN ParseOk([t |-> "array", v |-> << >>], k + 1)
    ELSE ParseElements(p, i + 1, << >>)
  ELSE IF p[i] = "\"" THEN ParseString(p, i + 1, << >>)
  ELSE IF p[i] \in Digits THEN ParseNumber(p, i)
  ELSE IF HasWord(p, i, << "n", "u", "l", "l" >>) THEN ParseOk([t |-> "null", v |-> 0], i + 4)
  ELSE IF HasWord(p, i, << "t", "r", "u", "e" >>) THEN ParseOk([t |-> "boolean", v |-> 1], i + 4)
  ELSE IF HasWord(p, i, << "f", "a", "l", "s", "e" >>) THEN ParseOk([t |-> "boolean", v |-> 0], i + 5)
  ELSE ParseFail(UnexpectedToken, i)

\* JSON.parse(text): one value, surrounded by optional white space.
JSONParse(p) ==
  LET r == ParseValue(p, SkipWs(p, 1)) IN
  IF ~r.ok THEN r
  ELSE
    LET e == SkipWs(p, r.pos) IN
    IF e <= Len(p) THEN ParseFail(UnexpectedToken, e) ELSE r

\* ------------------------------------------------------------------ events
\* The literal of line 533.
Sentinel == << "[", "D", "O", "N", "E", "]" >>

\* What the EventSource passes to a listener.  hasData is FALSE when the
\* event carries no data (event.data is null); message describes an error.
MessageEvent(d) == [type |-> "message", hasData |-> TRUE, data |-> d, message |-> ""]
MissingDataEvent == [type |-> "message", hasData |-> FALSE, data |-> << >>, message |-> ""]
ErrorEvent(m) == [type |-> "error", hasData |-> FALSE, data |-> << >>, message |-> m]
OpenEvent == [type |-> "open", hasData |-> FALSE, data |-> << >>, message |-> ""]
CloseEvent == [type |-> "close", hasData |-> FALSE, data |-> << >>, message |-> ""]

MessageEvents == { MessageEvent(d) : d \in Payloads } \cup { MissingDataEvent }
ErrorMessages == { "timeout", "network" }
ErrorEvents == { ErrorEvent(m) : m \in ErrorMessages }

\* The optional callbacks of onEvents (lines 12-16); onData is mandatory.
OptionalCallbacks == { "onError", "onOpen", "onDone" }

\* The message of an exception thrown by a caller's callback.
CallbackFault == << "f", "a", "u", "l", "t" >>

\* The caller's params: an object as its list of << key, value >> in
\* insertion order.
K_model == << "m", "o", "d", "e", "l" >>
K_stream == << "s", "t", "r", "e", "a", "m" >>
V_gpt == [t |-> "string", v |-> << "g", "p", "t" >>]
V_true == [t |-> "boolean", v |-> 1]
V_false == [t |-> "boolean", v |-> 0]

ParamsChoices ==
  { << << K_model, V_gpt >> >>,
    << << K_stream, V_false >>, << K_model, V_gpt >> >> }

Urls == { "/chat/completions" }
ApiKey == "sk-key"

NoRequest == [url |-> "", method |-> "", authorization |-> << >>, contentType |-> "", body |-> << >>]

VARIABLES
  started,    \* started[s]: _stream was called and the EventSource of s exists
  params,     \* params[s]: the caller's params object
  passed,     \* passed[s]: the caller's params as they were when passed
  callbacks,  \* callbacks[s]: the optional callbacks the caller supplied
  request,    \* request[s]: the arguments of new EventSource (lines 523-530)
  attempts,   \* attempts[s]: the EventSources constructed for s (connections)
  events,     \* events[s]: the events delivered to the listeners, in order
  trace,      \* trace[s]: the calls made by the listeners, in order
  closed      \* closed[s]: eventSource.close() was called

vars == << started, params, passed, callbacks, request, attempts, events, trace, closed >>

\* ------------------------------------------------------------ the request
HasKey(obj, k) == \E i \in 1..Len(obj) : obj[i][1] = k

\* { k: val, ...obj }: the fields of obj win over the new one.
SpreadWith_ParamsWin(obj, k, val) ==
  IF HasKey(obj, k) THEN obj ELSE << << k, val >> >> \o obj

\* { ...obj, k: val }: an existing key keeps its place and takes the new
\* value, a new key goes last (line 521).
SpreadWith(obj, k, val) ==
  IF HasKey(obj, k)
    THEN [i \in 1..Len(obj) |-> IF obj[i][1] = k THEN << k, val >> ELSE obj[i]]
    ELSE Append(obj, << k, val >>)

Quoted(chars) == << "\"" >> \o chars \o << "\"" >>

StringifyValue(val) ==
  CASE val.t = "string" -> Quoted(val.v)
    [] val.t = "boolean" ->
         IF val.v = 1 THEN << "t", "r", "u", "e" >> ELSE << "f", "a", "l", "s", "e" >>
    [] val.t = "null" -> << "n", "u", "l", "l" >>

RECURSIVE StringifyMembers(_, _)
StringifyMembers(obj, i) ==
  IF i > Len(obj) THEN << >>
  ELSE (IF i > 1 THEN << "," >> ELSE << >>)
       \o Quoted(obj[i][1]) \o << ":" >> \o StringifyValue(obj[i][2])
       \o StringifyMembers(obj, i + 1)

\* The caller's object after `params.stream = true`: the flag written into
\* the object that was passed.
ParamsAfterCall_Assigned(p) == SpreadWith(p, K_stream, V_true)

\* The caller's object after _stream: `{ ...params, stream: true }` (line
\* 521) builds a new object and nothing in lines 520-556 writes to params.
ParamsAfterCall(p) == p

\* JSON.stringify(requestBody), line 529.
JSONStringify(obj) == << "{" >> \o StringifyMembers(obj, 1) \o << "}" >>

\* new EventSource(url, {...}), lines 521-530.
BuildRequest(url, p) ==
  LET requestBody == SpreadWith(p, K_stream, V_true) IN
  [ url |-> url,
    method |-> "POST",
    authorization |-> << "Bearer ", ApiKey >>,
    contentType |-> "application/json",
    body |-> JSONStringify(requestBody) ]

\* --------------------------------------------------------------- the calls
NoArg == [t |-> "none", v |-> 0]

Call(op, arg, threw) == [op |-> op, arg |-> arg, threw |-> threw]
CloseCall == Call("close", NoArg, FALSE)

\* new Error(`JSON Parse on ${event.data} with error ${error.message}`),
\* line 539: the text of the template.
ParseError(data, msg) ==
  [ t |-> "Error",
    v |-> << "J", "S", "O", "N", " ", "P", "a", "r", "s", "e", " ", "o", "n", " " >>
          \o data
          \o << " ", "w", "i", "t", "h", " ", "e", "r", "r", "o", "r", " " >>
          \o msg ]

\* `event.data &&`: null and the empty string are falsy.
Truthy(event) == event.hasData /\ Len(event.data) > 0

\* `if (cb) { cb(arg); eventSource.close(); }`: close() only next to a
\* supplied callback.
OptionalThenClose_CloseWithCallback(cbs, op, arg, throws) ==
  IF op \in cbs
    THEN IF throws THEN << Call(op, arg, TRUE) >>
                   ELSE << Call(op, arg, FALSE), CloseCall >>
    ELSE << >>

\* cb?.(arg) followed by eventSource.close(): the calls appended to the
\* trace.  A callback that throws leaves the listener before close().
OptionalThenClose(cbs, op, arg, throws) ==
  IF op \in cbs
    THEN IF throws THEN << Call(op, arg, TRUE) >>
                   ELSE << Call(op, arg, FALSE), CloseCall >>
    ELSE << CloseCall >>

\* The 'message' listener without the comparison with '[DONE]': the
\* sentinel is handed to JSON.parse like any other payload.
OnMessage_SentinelParsed(cbs, event, dataThrows, termThrows) ==
  IF Truthy(event)
    THEN LET r == JSONParse(event.data) IN
         IF r.ok
           THEN IF dataThrows
                  THEN << Call("onData", r.value, TRUE) >>
                       \o OptionalThenClose(cbs, "onError",
                            ParseError(event.data, CallbackFault), termThrows)
                  ELSE << Call("onData", r.value, FALSE) >>
           ELSE OptionalThenClose(cbs, "onError",
                  ParseError(event.data, r.message), termThrows)
    ELSE OptionalThenClose(cbs, "onDone", NoArg, termThrows)

\* The 'message' listener with `if (data) onData(data)`: a parsed value
\* that is falsy (0, null, false, "") is not handed to onData.
OnMessage_SkipsFalsy(cbs, event, dataThrows, termThrows) ==
  IF Truthy(event) /\ event.data # Sentinel
    THEN LET r == JSONParse(event.data)
             falsy(val) == \/ val.t = "null"
                           \/ val.t = "number" /\ val.v = 0
                           \/ val.t = "boolean" /\ val.v = 0
                           \/ val.t = "string" /\ Len(val.v) = 0
         IN
         IF r.ok
           THEN IF falsy(r.value) THEN << >>
                ELSE IF dataThrows
                  THEN << Call("onData", r.value, TRUE) >>
                       \o OptionalThenClose(cbs, "onError",
                            ParseError(event.data, CallbackFault), termThrows)
                  ELSE << Call("onData", r.value, FALSE) >>
           ELSE OptionalThenClose(cbs, "onError",
                  ParseError(event.data, r.message), termThrows)
    ELSE OptionalThenClose(cbs, "onDone", NoArg, termThrows)

\* The 'message' listener, lines 532-547: the calls it makes for one event.
\* dataThrows / termThrows: whether the caller's onData / terminal callback
\* throws when invoked here.
OnMessage(cbs, event, dataThrows, termThrows) ==
  IF Truthy(event) /\ event.data # Sentinel
    THEN LET r == JSONParse(event.data) IN
         IF r.ok
           THEN IF dataThrows
                  THEN << Call("onData", r.value, TRUE) >>
                       \o OptionalThenClose(cbs, "onError",
                            ParseError(event.data, CallbackFault), termThrows)
                  ELSE << Call("onData", r.value, FALSE) >>
           ELSE OptionalThenClose(cbs, "onError",
                  ParseError(event.data, r.message), termThrows)
    ELSE OptionalThenClose(cbs, "onDone", NoArg, termThrows)

\* The 'error' listener without its eventSource.close().
OnError_NoClose(cbs, event, throws) ==
  IF "onError" \in cbs
    THEN << Call("onError", [t |-> "event", v |-> event], throws) >>
    ELSE << >>

\* An 'error' listener that retries: after close() it constructs a new
\* EventSource for the same request.
OnError_Retry(cbs, event, throws) ==
  OptionalThenClose(cbs, "onError", [t |-> "event", v |-> event], throws)
    \o << Call("new EventSource", NoArg, FALSE) >>

\* The 'error' listener, lines 549-552.
OnError(cbs, event, throws) ==
  OptionalThenClose(cbs, "onError", [t |-> "event", v |-> event], throws)

\* The 'open' listener, lines 554-556.
OnOpen(cbs, throws) ==
  IF "onOpen" \in cbs THEN << Call("onOpen", NoArg, throws) >> ELSE << >>

HasClose(calls) == \E i \in 1..Len(calls) : calls[i].op = "close"

\* The EventSources a listener run constructs.  The listeners of lines
\* 532-556 construct none: the only `new EventSource` is line 523.
Constructed(calls) ==
  Cardinality({ i \in 1..Len(calls) : calls[i].op = "new EventSource" })

\* Whether the session's current EventSource is closed after the calls of
\* a listener run: close() closes it, a newly constructed one is open.
RECURSIVE ClosedAfter(_, _)
ClosedAfter(was, calls) ==
  IF Len(calls) = 0 THEN was
  ELSE IF calls[Len(calls)].op = "close" THEN TRUE
  ELSE IF calls[Len(calls)].op = "new EventSource" THEN FALSE
  ELSE ClosedAfter(was, SubSeq(calls, 1, Len(calls) - 1))

\* The calls of one listener run, each marked with the number of the event
\* that the listener was run for.
Stamp(calls, n) ==
  [k \in 1..Len(calls) |->
     [op |-> calls[k].op, arg |-> calls[k].arg, threw |-> calls[k].threw, at |-> n]]

\* ----------------------------------------------------------------- actions
Init ==
  /\ started = [s \in Sessions |-> FALSE]
  /\ params = [s \in Sessions |-> << >>]
  /\ passed = [s \in Sessions |-> << >>]
  /\ callbacks = [s \in Sessions |-> {}]
  /\ request = [s \in Sessions |-> NoRequest]
  /\ attempts = [s \in Sessions |-> 0]
  /\ events = [s \in Sessions |-> << >>]
  /\ trace = [s \in Sessions |-> << >>]
  /\ closed = [s \in Sessions |-> FALSE]

\* A call of chat.completions.stream / beta.threads.runs.stream: _stream,
\* lines 512-557, called with the params object p.
Stream(s, url, p, cbs) ==
  /\ ~started[s]
  /\ started' = [started EXCEPT ![s] = TRUE]
  /\ passed' = [passed EXCEPT ![s] = p]
  /\ params' = [params EXCEPT ![s] = ParamsAfterCall(p)]
  /\ callbacks' = [callbacks EXCEPT ![s] = cbs]
  /\ request' = [request EXCEPT ![s] = BuildRequest(url, p)]
  /\ attempts' = [attempts EXCEPT ![s] = @ + 1]
  /\ UNCHANGED << events, trace, closed >>

\* Delivery with the EventSource kept in one place for all sessions (a
\* field of the client instead of a local of _stream): close() in the
\* listener of one session closes the transport of every session.
Deliver_SharedSource(s, event, calls) ==
  /\ events' = [events EXCEPT ![s] = Append(@, event)]
  /\ trace' = [trace EXCEPT ![s] = @ \o Stamp(calls, Len(events[s]) + 1)]
  /\ closed' = [t \in Sessions |-> ClosedAfter(closed[t], calls)]
  /\ attempts' = [attempts EXCEPT ![s] = @ + Constructed(calls)]
  /\ UNCHANGED << started, params, passed, callbacks, request >>

\* An event reaches the EventSource of s and the listener registered for
\* its type runs: the trace grows by the listener's calls, and close()
\* marks the EventSource closed.  No listener looks at what happened
\* before, so delivery is the same before and after close().
Deliver(s, event, calls) ==
  /\ events' = [events EXCEPT ![s] = Append(@, event)]
  /\ trace' = [trace EXCEPT ![s] = @ \o Stamp(calls, Len(events[s]) + 1)]
  /\ closed' = [closed EXCEPT ![s] = ClosedAfter(@, calls)]
  /\ attempts' = [attempts EXCEPT ![s] = @ + Constructed(calls)]
  /\ UNCHANGED << started, params, passed, callbacks, request >>

\* The EventSource dispatches one frame to the 'message' listener.  The
\* frames of one read are dispatched one after the other, each by a
\* Message step.
Message(s, event, dataThrows, termThrows) ==
  /\ started[s]
  /\ Len(events[s]) < MaxEvents
  /\ Deliver(s, event, OnMessage(callbacks[s], event, dataThrows, termThrows))

\* The EventSource dispatches an 'error' event.
Error(s, event, throws) ==
  /\ started[s]
  /\ Len(events[s]) < MaxEvents
  /\ Deliver(s, event, OnError(callbacks[s], event, throws))

\* The EventSource dispatches an 'open' event.
Open(s, throws) ==
  /\ started[s]
  /\ Len(events[s]) < MaxEvents
  /\ Deliver(s, OpenEvent, OnOpen(callbacks[s], throws))

\* The server ends the response without a sentinel and the EventSource
\* reports 'close': _stream registers no listener for it (lines 532-556).
TransportClose(s) ==
  /\ started[s]
  /\ Len(events[s]) < MaxEvents
  /\ Deliver(s, CloseEvent, << >>)

SessionNext(s) ==
  \/ \E url \in Urls, p \in ParamsChoices, cbs \in SUBSET OptionalCallbacks :
       Stream(s, url, p, cbs)
  \/ \E event \in MessageEvents, dataThrows, termThrows \in BOOLEAN :
       Message(s, event, dataThrows, termThrows)
  \/ \E event \in ErrorEvents, throws \in BOOLEAN : Error(s, event, throws)
  \/ \E throws \in BOOLEAN : Open(s, throws)
  \/ TransportClose(s)

\* One stream call and its session.
Next == SessionNext("s1")

Spec == Init /\ [][Next]_vars

\* Two stream calls whose sessions run side by side: the events of the two
\* EventSources arrive in any interleaving.
ConcurrentPayloads == { P_Id1, P_Bad, Sentinel }
ConcurrentCallbacks == { {}, OptionalCallbacks }
ConcurrentParams == { << << K_model, V_gpt >> >> }

TotalEvents == Len(events["s1"]) + Len(events["s2"])

ConcurrentNext ==
  \E s \in Sessions :
    \/ \E url \in Urls, p \in ConcurrentParams, cbs \in ConcurrentCallbacks :
         Stream(s, url, p, cbs)
    \/ /\ TotalEvents < MaxConcurrentEvents
       /\ \/ \E d \in ConcurrentPayloads, dataThrows, termThrows \in BOOLEAN :
               Message(s, MessageEvent(d), dataThrows, termThrows)
          \/ \E throws \in BOOLEAN : Error(s, ErrorEvent("network"), throws)
          \/ \E throws \in BOOLEAN : Open(s, throws)
          \/ TransportClose(s)

SpecConcurrent == Init /\ [][ConcurrentNext]_vars

\* One session whose frames carry JSON values of every kind (objects,
\* numbers, null, strings, booleans, arrays) besides the sentinel and a
\* malformed payload.
ValuePayloads ==
  { P_Zero, P_Null, P_Str, P_False, P_Array, P_Id1, P_Bad, Sentinel }

ValuesNext ==
  \/ \E url \in Urls, p \in ConcurrentParams, cbs \in SUBSET OptionalCallbacks :
       Stream("s1", url, p, cbs)
  \/ \E d \in ValuePayloads, dataThrows, termThrows \in BOOLEAN :
       Message("s1", MessageEvent(d), dataThrows, termThrows)
  \/ \E throws \in BOOLEAN : Error("s1", ErrorEvent("network"), throws)
  \/ \E throws \in BOOLEAN : Open("s1", throws)
  \/ TransportClose("s1")

SpecValues == Init /\ [][ValuesNext]_vars

\* ============================================================== properties
\* Vocabulary of the properties.

CountOp(calls, op) == Cardinality({ k \in 1..Len(calls) : calls[k].op = op })

\* The calls made by the listener run for event number i of session s.
CallsAt(s, i) == SelectSeq(trace[s], LAMBDA c : c.at = i)

\* No callback of session s has thrown.
NoThrow(s) == \A k \in 1..Len(trace[s]) : ~trace[s][k].threw

IsTerminalOp(op) == op \in { "onDone", "onError" }

\* The frames as section 4.2 of the specification classifies them.
IsBlank(e) ==
  /\ e.type = "message"
  /\ e.hasData
  /\ \A k \in 1..Len(e.data) : e.data[k] \in WhiteSpace

IsSentinel(e) == e.type = "message" /\ e.hasData /\ e.data = Sentinel

IsValidJson(e) == e.type = "message" /\ e.hasData /\ JSONParse(e.data).ok

IsMalformed(e) ==
  /\ e.type = "message"
  /\ e.hasData
  /\ ~IsBlank(e)
  /\ ~IsSentinel(e)
  /\ ~JSONParse(e.data).ok

IsTerminalCondition(e) == e.type = "error" \/ IsSentinel(e) \/ IsMalformed(e)

\* Two values are the same value (tag first, so that values of different
\* types are never compared).
SameValue(a, b) == a.t = b.t /\ a.v = b.v

\* The text hay holds the text needle.
Contains(hay, needle) ==
  \E i \in 1..(Len(hay) - Len(needle) + 1) :
    SubSeq(hay, i, i + Len(needle) - 1) = needle

SameValues(as, bs) ==
  /\ Len(as) = Len(bs)
  /\ \A k \in 1..Len(as) : SameValue(as[k], bs[k])

\* The number of the first event that is a terminal condition (one past
\* the end when there is none).
RECURSIVE FirstTerminal(_, _)
FirstTerminal(evs, i) ==
  IF i > Len(evs) \/ IsTerminalCondition(evs[i]) THEN i
  ELSE FirstTerminal(evs, i + 1)

\* The parsed payloads of the valid-JSON frames among evs[1..n], in order.
RECURSIVE ParsedPayloads(_, _)
ParsedPayloads(evs, n) ==
  IF n = 0 THEN << >>
  ELSE IF IsValidJson(evs[n])
    THEN Append(ParsedPayloads(evs, n - 1), JSONParse(evs[n].data).value)
    ELSE ParsedPayloads(evs, n - 1)

\* The values passed to onData, in call order.
RECURSIVE OnDataArgs(_, _)
OnDataArgs(calls, n) ==
  IF n = 0 THEN << >>
  ELSE IF calls[n].op = "onData"
    THEN Append(OnDataArgs(calls, n - 1), calls[n].arg)
    ELSE OnDataArgs(calls, n - 1)

\* C1: in every session, whatever events are delivered, onDone and onError
\* fire at most once in total (at most one terminal callback, never both).
C1_AtMostOneTerminal ==
  \A s \in Sessions :
    CountOp(trace[s], "onDone") + CountOp(trace[s], "onError") <= 1

\* C2: once the first terminal callback of a session has fired, the session
\* invokes no further callback (no onData, no onOpen, no second terminal
\* callback): whatever follows it in the trace is a close().
C2_NothingAfterTerminal ==
  \A s \in Sessions :
    \A j, k \in 1..Len(trace[s]) :
      (j < k /\ IsTerminalOp(trace[s][j].op)) => trace[s][k].op = "close"

\* C3: the values passed to onData are exactly the parsed payloads of the
\* valid-JSON frames that precede the first terminal condition, in arrival
\* order.
C3_DataIsFramesBeforeTerminal ==
  \A s \in Sessions :
    SameValues(OnDataArgs(trace[s], Len(trace[s])),
               ParsedPayloads(events[s], FirstTerminal(events[s], 1) - 1))

\* C4: a frame that is neither the sentinel nor valid JSON makes the session
\* call onError exactly once, with an Error whose message holds the raw
\* payload and the parser's description, and close the transport; no onData
\* and no onDone call is made for any later event of the session.
C4_MalformedFrameEndsSession ==
  \A s \in Sessions :
    \A i \in 1..Len(events[s]) :
      (IsMalformed(events[s][i]) /\ "onError" \in callbacks[s] /\ NoThrow(s)) =>
        LET calls == CallsAt(s, i) IN
        /\ Len(calls) = 2
        /\ calls[1].op = "onError"
        /\ calls[1].arg.t = "Error"
        /\ Contains(calls[1].arg.v, events[s][i].data)
        /\ Contains(calls[1].arg.v, JSONParse(events[s][i].data).message)
        /\ calls[2].op = "close"
        /\ \A k \in 1..Len(trace[s]) :
             trace[s][k].at > i => trace[s][k].op \notin { "onData", "onDone" }

\* Two calls are the same call.
SameCall(a, b) ==
  /\ a.op = b.op
  /\ a.at = b.at
  /\ a.threw = b.threw
  /\ SameValue(a.arg, b.arg)

SameCalls(as, bs) ==
  /\ Len(as) = Len(bs)
  /\ \A k \in 1..Len(as) : SameCall(as[k], bs[k])

StampedCall(op, arg, n) == [op |-> op, arg |-> arg, threw |-> FALSE, at |-> n]

\* evs is a normal stream: valid-JSON frames (and possibly 'open') and then,
\* last, the sentinel frame.
IsNormalStream(evs) ==
  /\ Len(evs) >= 2
  /\ IsSentinel(evs[Len(evs)])
  /\ \A i \in 1..(Len(evs) - 1) : IsValidJson(evs[i]) \/ evs[i].type = "open"
  /\ \E i \in 1..(Len(evs) - 1) : IsValidJson(evs[i])

\* One onData call per valid-JSON frame among evs[1..n], with its parsed
\* payload, in frame order.
RECURSIVE OnDataPerFrame(_, _)
OnDataPerFrame(evs, n) ==
  IF n = 0 THEN << >>
  ELSE IF IsValidJson(evs[n])
    THEN Append(OnDataPerFrame(evs, n - 1),
                StampedCall("onData", JSONParse(evs[n].data).value, n))
    ELSE OnDataPerFrame(evs, n - 1)

NotOnOpen(c) == c.op # "onOpen"

\* C5: when the events of a session are valid data frames followed by the
\* `[DONE]` frame (onDone supplied, callbacks returning normally), the
\* session's calls are one onData per data frame with its parsed payload,
\* in order, then onDone once, then close(); onError is not called and the
\* sentinel is not passed to onData.
C5_NormalStreamEndsWithDone ==
  \A s \in Sessions :
    (IsNormalStream(events[s]) /\ "onDone" \in callbacks[s] /\ NoThrow(s)) =>
      LET n == Len(events[s]) IN
      SameCalls(SelectSeq(trace[s], NotOnOpen),
                OnDataPerFrame(events[s], n - 1)
                  \o << StampedCall("onDone", NoArg, n),
                        StampedCall("close", NoArg, n) >>)

\* C5 witness: the frames {"id":1}, {"id":2}, [DONE] were delivered to a
\* session with onDone and the transport is closed.
C5_Witness ==
  \E s \in Sessions :
    /\ events[s] = << MessageEvent(P_Id1), MessageEvent(P_Id2), MessageEvent(Sentinel) >>
    /\ "onDone" \in callbacks[s]
    /\ NoThrow(s)
    /\ Len(trace[s]) = 4
    /\ trace[s][3].op = "onDone"
    /\ closed[s]

\* C6: for every 'error' event, in whatever state the session is (onError
\* supplied and returning normally), the listener calls onError once with
\* that very event, then close(), and makes no other call (no onDone).
C6_ErrorReportedThenClosed ==
  \A s \in Sessions :
    \A i \in 1..Len(events[s]) :
      LET calls == CallsAt(s, i) IN
      ( /\ events[s][i].type = "error"
        /\ "onError" \in callbacks[s]
        /\ \A k \in 1..Len(calls) : ~calls[k].threw ) =>
          /\ Len(calls) = 2
          /\ calls[1].op = "onError"
          /\ calls[1].arg.t = "event"
          /\ calls[1].arg.v = events[s][i]
          /\ calls[2].op = "close"
          /\ closed[s]

\* C6 witness: an error arrives mid-stream, after 'open' and a data frame,
\* and is reported.
C6_Witness ==
  \E s \in Sessions :
    /\ events[s] = << OpenEvent, MessageEvent(P_Id1), ErrorEvent("network") >>
    /\ "onError" \in callbacks[s]
    /\ CountOp(trace[s], "onData") = 1
    /\ CountOp(CallsAt(s, 3), "onError") = 1
    /\ closed[s]

\* C7: a session whose first event is an 'error' (the connection failed
\* before 'open') delivers exactly one onError and never onOpen or onDone,
\* whatever is delivered later.
C7_FailedConnectOnlyErrors ==
  \A s \in Sessions :
    ( /\ Len(events[s]) >= 1
      /\ events[s][1].type = "error"
      /\ "onError" \in callbacks[s]
      /\ NoThrow(s) ) =>
        /\ CountOp(trace[s], "onError") = 1
        /\ CountOp(trace[s], "onOpen") = 0
        /\ CountOp(trace[s], "onDone") = 0

\* C8: when the transport opens, delivers no frame and then closes without
\* a sentinel, the session has fired onOpen and then onError, and not
\* onDone.
C8_SilentCloseIsError ==
  \A s \in Sessions :
    ( /\ events[s] = << OpenEvent, CloseEvent >>
      /\ { "onOpen", "onError" } \subseteq callbacks[s]
      /\ NoThrow(s) ) =>
        /\ \E j, k \in 1..Len(trace[s]) :
             j < k /\ trace[s][j].op = "onOpen" /\ trace[s][k].op = "onError"
        /\ CountOp(trace[s], "onDone") = 0

\* C9: a frame whose payload is empty or only white space is ignored: the
\* listener makes no call for it (no onData, onDone, onError, close()).
C9_BlankFrameIgnored ==
  \A s \in Sessions :
    \A i \in 1..Len(events[s]) :
      IsBlank(events[s][i]) => Len(CallsAt(s, i)) = 0

\* C10: every onDone call is made for a frame whose payload is exactly
\* `[DONE]`.
C10_DoneOnlyOnSentinel ==
  \A s \in Sessions :
    \A k \in 1..Len(trace[s]) :
      trace[s][k].op = "onDone" => IsSentinel(events[s][trace[s][k].at])

\* A call of a caller's callback (not close()).
IsCallback(c) == c.op # "close"

\* C11: an exception thrown by onData while it handles a valid-JSON frame is
\* not caught: the listener makes no further call for that frame, neither
\* onError (with a JSON-parse Error) nor close().
C11_DataFaultNotConverted ==
  \A s \in Sessions :
    \A i \in 1..Len(events[s]) :
      LET calls == CallsAt(s, i) IN
      (\E k \in 1..Len(calls) : calls[k].op = "onData" /\ calls[k].threw) =>
        Len(calls) = 1

\* C12: for every sentinel frame, malformed frame and 'error' event the
\* listener calls close(), whichever callbacks are supplied and whether or
\* not the terminal callback throws.
C12_ClosedOnEveryExit ==
  \A s \in Sessions :
    \A i \in 1..Len(events[s]) :
      (IsSentinel(events[s][i]) \/ IsMalformed(events[s][i])
         \/ events[s][i].type = "error") =>
        HasClose(CallsAt(s, i))

\* C13: an 'error' event that arrives just after the teardown for a
\* malformed frame or a sentinel runs the close path a second time without
\* effect: no callback is invoked for it and the transport stays closed.
C13_SecondTeardownSilent ==
  \A s \in Sessions :
    \A i \in 2..Len(events[s]) :
      ( /\ events[s][i].type = "error"
        /\ IsSentinel(events[s][i - 1]) \/ IsMalformed(events[s][i - 1])
        /\ HasClose(CallsAt(s, i - 1)) ) =>
          /\ \A k \in 1..Len(CallsAt(s, i)) : ~IsCallback(CallsAt(s, i)[k])
          /\ closed[s]

\* C14: onOpen is invoked exactly once in a session to which the transport
\* has signalled 'open' (whatever further 'open' events follow), and not at
\* all in the others.
C14_OpenOnce ==
  \A s \in Sessions :
    ("onOpen" \in callbacks[s]) =>
      CountOp(trace[s], "onOpen") =
        (IF \E i \in 1..Len(events[s]) : events[s][i].type = "open" THEN 1 ELSE 0)

\* The keys of an object and the value it holds for a key.
ObjKeys(obj) == { obj[i][1] : i \in 1..Len(obj) }
ObjGet(obj, k) == obj[CHOOSE i \in 1..Len(obj) : obj[i][1] = k][2]

\* C15: the request of every stream call is a POST with the headers
\* Authorization: Bearer <apiKey> and Content-Type: application/json, and
\* its body is JSON text for an object that has the fields of the caller's
\* params with their values, except that stream is true (also when the
\* params carry another stream value), and no other field.
C15_RequestIsStreamingPost ==
  \A s \in Sessions :
    started[s] =>
      LET body == JSONParse(request[s].body) IN
      /\ request[s].method = "POST"
      /\ request[s].authorization = << "Bearer ", ApiKey >>
      /\ request[s].contentType = "application/json"
      /\ body.ok
      /\ body.value.t = "object"
      /\ Len(body.value.v) = Cardinality(ObjKeys(body.value.v))
      /\ ObjKeys(body.value.v) = ObjKeys(passed[s]) \cup { K_stream }
      /\ \A k \in ObjKeys(body.value.v) :
           SameValue(ObjGet(body.value.v, k),
                     IF k = K_stream THEN V_true ELSE ObjGet(passed[s], k))

\* C15 witness: a stream call whose params carry stream: false has issued a
\* request whose body says stream: true.
C15_Witness ==
  \E s \in Sessions :
    /\ started[s]
    /\ HasKey(passed[s], K_stream)
    /\ SameValue(ObjGet(passed[s], K_stream), V_false)
    /\ JSONParse(request[s].body).ok
    /\ SameValue(ObjGet(JSONParse(request[s].body).value.v, K_stream), V_true)

\* C16: the caller's params object is, after the stream call and after
\* every event delivered since, what it was when it was passed: the same
\* fields with the same values, and no stream field that was not there.
C16_ParamsUntouched ==
  \A s \in Sessions :
    started[s] =>
      /\ params[s] = passed[s]
      /\ HasKey(params[s], K_stream) = HasKey(passed[s], K_stream)

\* C16 witness: a session whose params had no stream field has handled
\* events and closed its transport, and the params still have none.
C16_Witness ==
  \E s \in Sessions :
    /\ started[s]
    /\ ~HasKey(passed[s], K_stream)
    /\ ~HasKey(params[s], K_stream)
    /\ Len(events[s]) >= 2
    /\ closed[s]

\* C17: in a session without onError, a malformed frame or an 'error' event
\* makes the listener call close() and nothing else: no callback is
\* invoked (not onDone, not onData) and the transport is closed.
C17_SilentAbnormalExit ==
  \A s \in Sessions :
    \A i \in 1..Len(events[s]) :
      ( /\ "onError" \notin callbacks[s]
        /\ IsMalformed(events[s][i]) \/ events[s][i].type = "error" ) =>
          /\ Len(CallsAt(s, i)) = 1
          /\ CallsAt(s, i)[1].op = "close"
          /\ closed[s]

\* C17 witness: a session without onError (but with onDone) got a data
\* frame and then a malformed frame: its calls are onData and close().
C17_Witness ==
  \E s \in Sessions :
    /\ callbacks[s] = { "onDone", "onOpen" }
    /\ events[s] = << MessageEvent(P_Id1), MessageEvent(P_Bad) >>
    /\ Len(trace[s]) = 2
    /\ trace[s][1].op = "onData"
    /\ trace[s][2].op = "close"
    /\ closed[s]

\* The state of a session in the terms of section 4.3 of the
\* specification.
SessionState(s) ==
  IF ~started[s] THEN "Idle"
  ELSE IF closed[s] THEN "Closed"
  ELSE IF \E i \in 1..Len(events[s]) : events[s][i].type = "open" THEN "Open"
  ELSE "Connecting"

\* C18: every stream call makes exactly one connection attempt, and a
\* session that has closed stays Closed: no later event brings it back to
\* Connecting or Open or makes it connect again.
C18_ClosedIsAbsorbing ==
  /\ [](\A s \in Sessions : started[s] => attempts[s] = 1)
  /\ [][\A s \in Sessions :
          SessionState(s) = "Closed" =>
            /\ SessionState(s)' = "Closed"
            /\ attempts'[s] = attempts[s]]_vars

\* C18 witness: a session closed by the sentinel has since received an
\* 'open' and an 'error' event; it is Closed and has connected once.
C18_Witness ==
  \E s \in Sessions :
    /\ Len(events[s]) = 3
    /\ IsSentinel(events[s][1])
    /\ events[s][2].type = "open"
    /\ events[s][3].type = "error"
    /\ SessionState(s) = "Closed"
    /\ attempts[s] = 1

\* The calls of the listener registered for the type of event e.
ListenerCalls(cbs, e, dataThrows, termThrows) ==
  CASE e.type = "message" -> OnMessage(cbs, e, dataThrows, termThrows)
    [] e.type = "error" -> OnError(cbs, e, termThrows)
    [] e.type = "open" -> OnOpen(cbs, termThrows)
    [] e.type = "close" -> << >>

\* Whether onData / another callback threw in the run for event i of s.
DataThrewAt(s, i) ==
  \E k \in 1..Len(trace[s]) :
    trace[s][k].at = i /\ trace[s][k].op = "onData" /\ trace[s][k].threw

OtherThrewAt(s, i) ==
  \E k \in 1..Len(trace[s]) :
    trace[s][k].at = i /\ trace[s][k].op # "onData" /\ trace[s][k].threw

\* The calls of a session that receives the events of s, with the callbacks
\* of s behaving as they did, and no other session around.
RECURSIVE AloneTrace(_, _)
AloneTrace(s, n) ==
  IF n = 0 THEN << >>
  ELSE AloneTrace(s, n - 1)
       \o Stamp(ListenerCalls(callbacks[s], events[s][n],
                              DataThrewAt(s, n), OtherThrewAt(s, n)), n)

\* C19: two sessions are independent.  In every interleaving of their
\* events each session's calls and close state are those it has when it
\* runs alone on its own events, and a step of one session (its stream
\* call, an event delivered to it) changes nothing of the other: no
\* callback of the other is invoked and its transport is not closed.
C19_SessionsIndependent ==
  /\ [](\A s \in Sessions :
          /\ SameCalls(trace[s], AloneTrace(s, Len(events[s])))
          /\ closed[s] = ClosedAfter(FALSE, trace[s])
          /\ started[s] => attempts[s] = 1)
  /\ [][\A s \in Sessions :
          (events'[s] = events[s] /\ started'[s] = started[s]) =>
            /\ trace'[s] = trace[s]
            /\ closed'[s] = closed[s]
            /\ attempts'[s] = attempts[s]
            /\ callbacks'[s] = callbacks[s]
            /\ params'[s] = params[s]
            /\ request'[s] = request[s]]_vars

\* C19 witness: session s1 has ended with onDone and closed its transport
\* while session s2, started with the same callbacks, has delivered a data
\* frame and is still open.
C19_Witness ==
  /\ callbacks["s1"] = OptionalCallbacks
  /\ callbacks["s2"] = OptionalCallbacks
  /\ events["s1"] = << MessageEvent(P_Id1), MessageEvent(Sentinel) >>
  /\ events["s2"] = << OpenEvent, MessageEvent(P_Id1) >>
  /\ CountOp(trace["s1"], "onDone") = 1
  /\ closed["s1"]
  /\ CountOp(trace["s2"], "onData") = 1
  /\ ~closed["s2"]

\* C20: a frame whose payload is valid JSON, whatever the value (also 0,
\* null, false or a string), makes the listener call onData once with the
\* parsed value and nothing else: no terminal callback and no close()
\* (onData returning normally).
C20_ValidFrameIsOneData ==
  \A s \in Sessions :
    \A i \in 1..Len(events[s]) :
      (IsValidJson(events[s][i]) /\ ~DataThrewAt(s, i)) =>
        LET calls == CallsAt(s, i)
            data == events[s][i].data
        IN
        /\ Len(calls) = 1
        /\ calls[1].op = "onData"
        /\ SameValue(calls[1].arg, JSONParse(data).value)
        /\ data = P_Zero => SameValue(calls[1].arg, [t |-> "number", v |-> 0])
        /\ data = P_Null => calls[1].arg.t = "null"
        /\ data = P_False => SameValue(calls[1].arg, V_false)
        /\ data = P_Str => SameValue(calls[1].arg, [t |-> "string", v |-> << "a" >>])

\* C20 witness: the frames 0, null and "a" were each handed to onData and
\* the session is still open.
C20_Witness ==
  \E s \in Sessions :
    /\ events[s] = << MessageEvent(P_Zero), MessageEvent(P_Null), MessageEvent(P_Str) >>
    /\ NoThrow(s)
    /\ Len(trace[s]) = 3
    /\ \A k \in 1..3 : trace[s][k].op = "onData" /\ trace[s][k].at = k
    /\ trace[s][2].arg.t = "null"
    /\ ~closed[s]

\* C21: every close() the session makes belongs to the listener run of a
\* terminal condition (the sentinel, a malformed payload, a transport error)
\* and, when the callback of that condition is supplied, comes right after
\* that callback's invocation in the same run: onDone for the sentinel,
\* onError for the other two.
C21_TerminalCallbackBeforeClose ==
  \A s \in Sessions :
    \A k \in 1..Len(trace[s]) :
      trace[s][k].op = "close" =>
        LET i == trace[s][k].at
            e == events[s][i]
            op == IF IsSentinel(e) THEN "onDone" ELSE "onError"
        IN
        /\ IsTerminalCondition(e)
        /\ op \in callbacks[s] =>
             /\ k > 1
             /\ trace[s][k - 1].at = i
             /\ trace[s][k - 1].op = op

\* C22: the listener run of one message event invokes at most one caller
\* callback; one frame never reaches two callbacks.
C22_OneCallbackPerFrame ==
  \A s \in Sessions :
    \A i \in 1..Len(events[s]) :
      events[s][i].type = "message" =>
        Len(SelectSeq(CallsAt(s, i), IsCallback)) <= 1

====
